---- MODULE Spec2Model ----
(***************************************************************************)
(* Relational-to-graph migration of transfer.py: the PostgreSQL tables are *)
(* read one after the other, projected into batches of flat records and    *)
(* written to Neo4j as nodes and relationships.                            *)
(*                                                                         *)
(* Column values.  A column value is a tuple: <<>> is SQL NULL / Python    *)
(* None / Cypher null, <<k>> is the integer k, <<tag, k>> is a value of    *)
(* the kind named by tag ("name", "title", "dec" for a NUMERIC/Decimal,    *)
(* "float" for a Python float, "date", ...) with content number k.         *)
(*                                                                         *)
(* Rows are tuples as psycopg2 returns them; Python's row[i] is row[i+1]   *)
(* here.  A fetchall() result and a $parameter list are bags of rows or    *)
(* records: SELECT has no ORDER BY and nothing in transfer.py depends on   *)
(* the order of a batch.  The graph is a bag of nodes and a bag of edges;  *)
(* an edge names its two endpoint nodes by their content.                  *)
(***************************************************************************)
EXTENDS Integers, Sequences, FiniteSets, Bags, TLC

VARIABLES pg, nodes, edges, indexes, pc, trace, failedAt, log, completed,
          handles, runs, doneGraphs,
          batch_limit, batch_count, connection, rpc, fetched, lookups, enriched,
          todo, processed,
          api_keys, current_key_index, apc, attempt, start, statuses, sent,
          response, calls

\* The state of main.py: run()'s argument, counter and position, the
\* pipeline's connection, and the argument, environment and result of
\* enrich_books.
mainVars == <<batch_limit, batch_count, connection, rpc, fetched, lookups, enriched>>

\* The state of insert.py's insert_data besides the database pg: the books of
\* its argument it has yet to process, and what became of the others.
insertVars == <<todo, processed>>

\* The state of fetch.py's GoogleBooksAPI: the object's api_keys and
\* current_key_index, and of _api_request the position (apc), the loop
\* variable (attempt), the index the call began with (start), what each
\* attempt was answered with (statuses), the key each attempt was sent with
\* (sent), the returned value (response) and the number of calls begun.
apiVars == <<api_keys, current_key_index, apc, attempt, start, statuses, sent,
             response, calls>>

vars == <<pg, nodes, edges, indexes, pc, trace, failedAt, log, completed,
          handles, runs, doneGraphs, mainVars, insertVars, apiVars>>

(* ---------------- bounds ---------------- *)
MaxId == 2
MaxDelta == 1
MaxRuns == 2

Ids == 1..MaxId

(* ---------------- column values ---------------- *)
NULL == <<>>
V(k) == <<k>>
T(tag, k) == <<tag, k>>

\* Cypher's = in a WHERE clause: a comparison with null is not true.
CypherEq(a, b) == a # NULL /\ b # NULL /\ a = b

\* SQL's = in a join condition: a comparison with NULL is not true.
SqlEq(a, b) == a # NULL /\ b # NULL /\ a = b

\* Python truthiness of a column value: None and numeric zero are falsy.
Truthy(v) == v # NULL /\ v[Len(v)] # 0

\* float(x) of a Decimal/number keeps the number and makes it a float.
ToFloat(v) == T("float", v[Len(v)])

\* str(x) of a date; str(None) is the text "None".
ToStr(v) == IF v = NULL THEN T("None", 0) ELSE T("str", v[Len(v)])

(* ---------------- relational rows ---------------- *)
NameRow(k) == <<V(k), T("name", k)>>

BookRow(k) ==
    <<V(k), T("isbn10", k), T("isbn13", k), T("title", k), T("subtitle", k),
      T("description", k), T("lang", k), V(2000 + k), V(100 + k),
      T("maturity", k), T("gbid", k), T("preview", k), T("info", k),
      T("canonical", k)>>

RatingsRow(k) == <<V(k), T("dec", k), V(10 + k)>>
PhysicalBookRow(k) == <<V(k), T("format", k)>>
EBookRow(k) == <<V(k), T("url", k)>>

\* Price(price_id, book_id, country, on_sale_date, saleability, list_price,
\*       retail_price, list_price_currency_code, retail_price_currency_code,
\*       buy_link); b is the book_id column value, possibly NULL.
PriceRow(k, b) ==
    <<V(k), b, T("country", k), T("date", k), T("saleability", k),
      T("dec", 10 * k), T("dec", 9 * k), T("cur", k), T("cur", k),
      T("link", k)>>

JoinRow(b, e) == <<V(b), V(e)>>

(* ---------------- the relational source ---------------- *)
NameTables == {"Publisher", "Author", "Category", "Subject"}
JoinTables == {"BookAuthor", "BookPublisher", "BookCategory", "BookSubject"}
SatelliteTables == {"Ratings", "PhysicalBook", "EBook"}
Tables == NameTables \cup JoinTables \cup SatelliteTables \cup {"Book", "Price"}

\* Every row a table of the bounded source may hold, as <<table, row>>.
Universe ==
    {<<t, NameRow(k)>> : t \in NameTables, k \in Ids}
    \cup {<<"Book", BookRow(k)>> : k \in Ids}
    \cup {<<"Ratings", RatingsRow(k)>> : k \in Ids}
    \cup {<<"PhysicalBook", PhysicalBookRow(k)>> : k \in Ids}
    \cup {<<"EBook", EBookRow(k)>> : k \in Ids}
    \cup {<<"Price", PriceRow(k, b)>> : k \in Ids, b \in {NULL} \cup {V(i) : i \in Ids}}
    \cup {<<t, JoinRow(b, e)>> : t \in JoinTables, b \in Ids, e \in Ids}

\* A small catalogue with the gaps a real one has: book 1 has all three
\* satellite rows and two prices, book 2 has none; author 2 is referenced but
\* missing.
BaseFacts ==
    {<<"Publisher", NameRow(1)>>, <<"Author", NameRow(1)>>, <<"Category", NameRow(1)>>,
     <<"Category", NameRow(2)>>, <<"Subject", NameRow(1)>>}
    \cup {<<"Book", BookRow(1)>>, <<"Book", BookRow(2)>>}
    \cup {<<"Ratings", RatingsRow(1)>>, <<"PhysicalBook", PhysicalBookRow(1)>>,
          <<"EBook", EBookRow(1)>>}
    \cup {<<"Price", PriceRow(1, V(1))>>, <<"Price", PriceRow(2, V(1))>>}
    \cup {<<"BookAuthor", JoinRow(1, 1)>>, <<"BookAuthor", JoinRow(1, 2)>>,
          <<"BookPublisher", JoinRow(1, 1)>>, <<"BookCategory", JoinRow(1, 1)>>,
          <<"BookCategory", JoinRow(2, 2)>>, <<"BookSubject", JoinRow(2, 1)>>}

RECURSIVE SubsetsUpTo(_, _)
SubsetsUpTo(U, n) ==
    IF n = 0 THEN {{}}
    ELSE LET P == SubsetsUpTo(U, n - 1)
         IN  P \cup {p \cup {x} : p \in P, x \in U}

\* The key of a row: the whole row in a join table, its first column elsewhere.
KeyOf(f) == IF f[1] \in JoinTables THEN f ELSE <<f[1], f[2][1]>>

\* The catalogue after the rows of D were written to it: a row of D that is
\* present is deleted, another one is inserted in place of the row with its key.
Toggle(D) ==
    {f \in BaseFacts : \A g \in D : KeyOf(g) # KeyOf(f)} \cup (D \ BaseFacts)

TableOf(F, t) == {f[2] : f \in {g \in F : g[1] = t}}

\* Primary keys and the unique book_id of the satellite tables (the ON CONFLICT
\* targets of insert.py) identify a row.
KeysUnique(db) ==
    \A t \in NameTables \cup SatelliteTables \cup {"Book", "Price"} :
        \A r1, r2 \in db[t] : r1[1] = r2[1] => r1 = r2

Databases ==
    {db \in {[t \in Tables |-> TableOf(Toggle(D), t)] : D \in SubsetsUpTo(Universe, MaxDelta)} :
        KeysUnique(db)}

(* ---------------- the graph destination ---------------- *)
Labels == {"Publisher", "Author", "Category", "Subject", "Book", "Price"}
RelTypes == {"AUTHORED_BY", "PUBLISHED_BY", "CATEGORIZED_AS", "HAS_SUBJECT", "PRICED_AT"}

Node(label, props) == [label |-> label, props |-> props]
Edge(type, from, to) == [type |-> type, from |-> from, to |-> to]

NodesOf(ns, label) == {n \in BagToSet(ns) : n.label = label}

\* What an earlier use of the destination may have left behind.
StaleNodes ==
    SetToBag({Node("Book", [id |-> V(1), title |-> T("stale", 1)]),
              Node("Author", [id |-> V(1), name |-> T("stale", 1)])})
StaleEdges ==
    SetToBag({Edge("WROTE",
                   Node("Author", [id |-> V(1), name |-> T("stale", 1)]),
                   Node("Book", [id |-> V(1), title |-> T("stale", 1)]))})

IndexNames == {"book_id", "price_id", "author_id", "publisher_id", "category_id", "subject_id"}

(* ---------------- Relational Source Reader ---------------- *)
\* cursor.execute("SELECT * FROM <table>"); cursor.fetchall()
SelectAll(db, t) == SetToBag(db[t])

\* A join that drops the book rows the satellite table has no row for.
InnerJoinCols(db, t, b, width) ==
    {SubSeq(r, 2, width + 1) : r \in {x \in db[t] : SqlEq(b[1], x[1])}}

\* The rows of satellite table t that a LEFT JOIN ... ON b.book_id = t.book_id
\* pairs with book row b, cut to the selected columns; one all-NULL row when
\* there is none.
LeftJoinCols(db, t, b, width) ==
    LET hit == {r \in db[t] : SqlEq(b[1], r[1])}
    IN  IF hit = {} THEN {[i \in 1..width |-> NULL]}
        ELSE {SubSeq(r, 2, width + 1) : r \in hit}

\* SELECT b.*, r.avg_rating, r.ratings_count, pb.format, eb.ebook_url
\* FROM Book b LEFT JOIN Ratings r ... LEFT JOIN PhysicalBook pb ... LEFT JOIN EBook eb ...
SelectBooks(db) ==
    LET joined(b) ==
            {<<b \o r \o f \o u, r, f, u>> :
                r \in LeftJoinCols(db, "Ratings", b, 2),
                f \in LeftJoinCols(db, "PhysicalBook", b, 1),
                u \in LeftJoinCols(db, "EBook", b, 1)}
        all == UNION {joined(b) : b \in db["Book"]}
        rows == {j[1] : j \in all}
    IN  [row \in rows |-> Cardinality({j \in all : j[1] = row})]

(* ---------------- Entity Projector ---------------- *)
\* {"id": row[0], "name": row[1]}
NameRecord(row) == [id |-> row[1], name |-> row[2]]

\* A projection that takes the id from the wrong column.
BookRecordWrongId(row) ==
    [id |-> row[9], isbn10 |-> row[2], isbn13 |-> row[3], title |-> row[4],
     subtitle |-> row[5], description |-> row[6], language_code |-> row[7],
     publication_year |-> row[8], page_count |-> row[9],
     maturity_rating |-> row[10], google_books_id |-> row[11],
     google_preview_link |-> row[12], google_info_link |-> row[13],
     google_canonical_link |-> row[14],
     avg_rating |-> IF Truthy(row[15]) THEN ToFloat(row[15]) ELSE NULL,
     ratings_count |-> row[16], format |-> row[17], ebook_url |-> row[18]]

BookRecord(row) ==
    [id |-> row[1], isbn10 |-> row[2], isbn13 |-> row[3], title |-> row[4],
     subtitle |-> row[5], description |-> row[6], language_code |-> row[7],
     publication_year |-> row[8], page_count |-> row[9],
     maturity_rating |-> row[10], google_books_id |-> row[11],
     google_preview_link |-> row[12], google_info_link |-> row[13],
     google_canonical_link |-> row[14],
     avg_rating |-> IF Truthy(row[15]) THEN ToFloat(row[15]) ELSE NULL,
     ratings_count |-> row[16], format |-> row[17], ebook_url |-> row[18]]

PriceRecord(row) ==
    [id |-> row[1], book_id |-> row[2], country |-> row[3],
     on_sale_date |-> ToStr(row[4]), saleability |-> row[5],
     list_price |-> IF Truthy(row[6]) THEN ToFloat(row[6]) ELSE NULL,
     retail_price |-> IF Truthy(row[7]) THEN ToFloat(row[7]) ELSE NULL,
     list_price_currency_code |-> row[8],
     retail_price_currency_code |-> row[9], buy_link |-> row[10]]

\* {"book_id": row[0], "entity_id": row[1]}
RelRecord(row) == [book_id |-> row[1], entity_id |-> row[2]]

(* ---------------- Graph Loader ---------------- *)
\* UNWIND $publishers AS pub CREATE (p:Publisher {...}): one node per record.
create_publisher_nodes(ns, publishers) ==
    ns (+) BagOfAll(LAMBDA pub : Node("Publisher", [id |-> pub.id, name |-> pub.name]),
                    publishers)

create_author_nodes(ns, authors) ==
    ns (+) BagOfAll(LAMBDA auth : Node("Author", [id |-> auth.id, name |-> auth.name]),
                    authors)

create_category_nodes(ns, categories) ==
    ns (+) BagOfAll(LAMBDA cat : Node("Category", [id |-> cat.id, name |-> cat.name]),
                    categories)

create_subject_nodes(ns, subjects) ==
    ns (+) BagOfAll(LAMBDA sub : Node("Subject", [id |-> sub.id, name |-> sub.name]),
                    subjects)

create_book_nodes(ns, books) ==
    ns (+) BagOfAll(LAMBDA book : Node("Book",
               [id |-> book.id, isbn10 |-> book.isbn10, isbn13 |-> book.isbn13,
                title |-> book.title, subtitle |-> book.subtitle,
                description |-> book.description, language_code |-> book.language_code,
                publication_year |-> book.publication_year, page_count |-> book.page_count,
                maturity_rating |-> book.maturity_rating,
                google_books_id |-> book.google_books_id,
                google_preview_link |-> book.google_preview_link,
                google_info_link |-> book.google_info_link,
                google_canonical_link |-> book.google_canonical_link,
                avg_rating |-> book.avg_rating, ratings_count |-> book.ratings_count,
                format |-> book.format, ebook_url |-> book.ebook_url]),
           books)

\* A match that leaves out the condition on the entity id.
MatchCreateAnyEntity(ns, rels, rel_type, node_type) ==
    LET hits(b, e) == {r \in BagToSet(rels) : CypherEq(b.props.id, r.book_id)}
        pairs == {p \in NodesOf(ns, "Book") \X NodesOf(ns, node_type) : hits(p[1], p[2]) # {}}
        times(b, e) == BagCardinality([r \in hits(b, e) |-> rels[r]])
    IN  [x \in {Edge(rel_type, p[1], p[2]) : p \in pairs} |->
            times(x.from, x.to) * CopiesIn(x.from, ns) * CopiesIn(x.to, ns)]

\* UNWIND $rels AS rel MATCH (b:Book), (e:node_type)
\* WHERE b.id = rel.book_id AND e.id = rel.entity_id CREATE (b)-[:rel_type]->(e)
\* The edges created: one per element of rels and per pair of matching nodes.
MatchCreate(ns, rels, rel_type, node_type) ==
    LET hits(b, e) == {r \in BagToSet(rels) :
                          CypherEq(b.props.id, r.book_id) /\ CypherEq(e.props.id, r.entity_id)}
        pairs == {p \in NodesOf(ns, "Book") \X NodesOf(ns, node_type) : hits(p[1], p[2]) # {}}
        times(b, e) == BagCardinality([r \in hits(b, e) |-> rels[r]])
    IN  [x \in {Edge(rel_type, p[1], p[2]) : p \in pairs} |->
            times(x.from, x.to) * CopiesIn(x.from, ns) * CopiesIn(x.to, ns)]

\* A first statement that leaves only the Price nodes in the graph.
PriceNodesReplacing(ns, prices) ==
    BagOfAll(LAMBDA price : Node("Price",
               [id |-> price.id, country |-> price.country,
                on_sale_date |-> price.on_sale_date, saleability |-> price.saleability,
                list_price |-> price.list_price, retail_price |-> price.retail_price,
                list_price_currency_code |-> price.list_price_currency_code,
                retail_price_currency_code |-> price.retail_price_currency_code,
                buy_link |-> price.buy_link]),
           prices)

\* The Price nodes of create_price_nodes' first statement.
PriceNodes(ns, prices) ==
    ns (+) BagOfAll(LAMBDA price : Node("Price",
               [id |-> price.id, country |-> price.country,
                on_sale_date |-> price.on_sale_date, saleability |-> price.saleability,
                list_price |-> price.list_price, retail_price |-> price.retail_price,
                list_price_currency_code |-> price.list_price_currency_code,
                retail_price_currency_code |-> price.retail_price_currency_code,
                buy_link |-> price.buy_link]),
           prices)

\* A match of the Price node on the book id.
PriceRelsWrongKey(prices) ==
    BagOfAll(LAMBDA price : [book_id |-> price.book_id, entity_id |-> price.book_id], prices)

\* The second statement of create_price_nodes matches on price.book_id and
\* price.id.
PriceRels(prices) ==
    BagOfAll(LAMBDA price : [book_id |-> price.book_id, entity_id |-> price.id], prices)

\* The PRICED_AT edges matched before the Price nodes exist.
create_price_edges_first(ns, es, prices) ==
    [nodes |-> PriceNodes(ns, prices),
     edges |-> es (+) MatchCreate(ns, PriceRels(prices), "PRICED_AT", "Price")]

\* create_price_nodes: the nodes, then the PRICED_AT edges matched against the
\* graph that already holds them.
create_price_nodes(ns, es, prices) ==
    LET ns2 == PriceNodes(ns, prices)
    IN  [nodes |-> ns2,
         edges |-> es (+) MatchCreate(ns2, PriceRels(prices), "PRICED_AT", "Price")]

\* Relationships created from the entity to the book.
create_relationships_reversed(ns, es, relationships, rel_type, node_type) ==
    es (+) BagOfAll(LAMBDA x : Edge(x.type, x.to, x.from),
                    MatchCreate(ns, relationships, rel_type, node_type))

create_relationships(ns, es, relationships, rel_type, node_type) ==
    es (+) MatchCreate(ns, relationships, rel_type, node_type)

\* CREATE INDEX ... IF NOT EXISTS, six times.
create_indexes(ix) == ix \cup IndexNames

(* ---------------- Migration Orchestrator: main() ---------------- *)
\* pc is the stage the run has last completed; START is the state after the
\* module-level connection set-up, before main() is entered.
Stages == <<"RESET", "INDEX", "LOAD_PUBLISHERS", "LOAD_AUTHORS", "LOAD_CATEGORIES",
            "LOAD_SUBJECTS", "LOAD_BOOKS", "LOAD_PRICES", "LINK_AUTHORS",
            "LINK_PUBLISHERS", "LINK_CATEGORIES", "LINK_SUBJECTS", "DONE">>

StageSet == {Stages[i] : i \in 1..Len(Stages)}

\* The stage that follows position p in main()'s statement order.
NextStage(p) ==
    IF p = "START" THEN Stages[1]
    ELSE Stages[(CHOOSE i \in 1..Len(Stages) : Stages[i] = p) + 1]

Fresh == [pg_conn |-> "open", driver |-> "open", session |-> "none"]

\* main.py and insert.py are not running.
MainIdle ==
    /\ batch_limit = <<>>
    /\ batch_count = 0
    /\ connection = "none"
    /\ rpc = "idle"
    /\ fetched = <<>>
    /\ lookups = <<>>
    /\ enriched = [called |-> FALSE, out |-> <<>>]

InsertIdle ==
    /\ todo = <<>>
    /\ processed = <<>>

\* The pipeline's GoogleBooksAPI as main.py constructs it, with no request
\* in progress.
ApiIdle ==
    /\ api_keys = <<1, 2, 3>>
    /\ current_key_index = 0
    /\ apc = "idle"
    /\ attempt = 0
    /\ start = 0
    /\ statuses = <<>>
    /\ sent = <<>>
    /\ response = <<>>
    /\ calls = 0

Init ==
    /\ MainIdle
    /\ InsertIdle
    /\ ApiIdle
    /\ pg \in Databases
    /\ \/ nodes = EmptyBag /\ edges = EmptyBag
       \/ nodes = StaleNodes /\ edges = StaleEdges
    /\ indexes = {}
    /\ pc = "START"
    /\ trace = <<>>
    /\ failedAt = "none"
    /\ log = <<>>
    /\ completed = FALSE
    /\ handles = Fresh
    /\ runs = 1
    /\ doneGraphs = <<>>

\* Leaving stage s behind, having printed the lines in printed.
Advance(s, printed) ==
    /\ pc' = s
    /\ trace' = Append(trace, s)
    /\ log' = log \o printed
    /\ UNCHANGED <<pg, failedAt, runs, mainVars, insertVars, apiVars>>

\* A reset that deletes the relationships only.
ResetEdgesOnly ==
    /\ pc = "START"
    /\ handles' = [handles EXCEPT !.session = "open"]
    /\ edges' = EmptyBag
    /\ Advance("RESET", <<>>)
    /\ UNCHANGED <<nodes, indexes, completed, doneGraphs>>

\* with driver.session() as session: session.run("MATCH (n) DETACH DELETE n")
Reset ==
    /\ pc = "START"
    /\ handles' = [handles EXCEPT !.session = "open"]
    /\ nodes' = EmptyBag
    /\ edges' = EmptyBag
    /\ Advance("RESET", <<>>)
    /\ UNCHANGED <<indexes, completed, doneGraphs>>

\* CREATE INDEX without IF NOT EXISTS: the statement raises when an index of
\* the name is there.
IndexNoIfNotExists ==
    /\ pc = "RESET"
    /\ indexes \cap IndexNames = {}
    /\ indexes' = indexes \cup IndexNames
    /\ Advance("INDEX", <<>>)
    /\ UNCHANGED <<nodes, edges, completed, handles, doneGraphs>>

Index ==
    /\ pc = "RESET"
    /\ indexes' = create_indexes(indexes)
    /\ Advance("INDEX", <<>>)
    /\ UNCHANGED <<nodes, edges, completed, handles, doneGraphs>>

\* The create_*_nodes function of a two-column entity table.
CreateNameNodes(table, ns, records) ==
    CASE table = "Publisher" -> create_publisher_nodes(ns, records)
      [] table = "Author" -> create_author_nodes(ns, records)
      [] table = "Category" -> create_category_nodes(ns, records)
      [] table = "Subject" -> create_subject_nodes(ns, records)

\* One of the four stages that read a two-column entity table.
LoadNames(prev, stage, table, what) ==
    /\ pc = prev
    /\ LET records == BagOfAll(NameRecord, SelectAll(pg, table))
       IN  /\ nodes' = CreateNameNodes(table, nodes, records)
           /\ Advance(stage, <<<<what, BagCardinality(records)>>>>)
    /\ UNCHANGED <<edges, indexes, completed, handles, doneGraphs>>

LoadPublishers ==
    LoadNames("INDEX", "LOAD_PUBLISHERS", "Publisher", "publishers")

LoadAuthors ==
    LoadNames("LOAD_PUBLISHERS", "LOAD_AUTHORS", "Author", "authors")

LoadCategories ==
    LoadNames("LOAD_AUTHORS", "LOAD_CATEGORIES", "Category", "categories")

LoadSubjects ==
    LoadNames("LOAD_CATEGORIES", "LOAD_SUBJECTS", "Subject", "subjects")

\* A stage that hands the loader one record for each book id.
LoadBooksOnePerId ==
    /\ pc = "LOAD_SUBJECTS"
    /\ LET all == BagOfAll(BookRecord, SelectBooks(pg))
           batch == SetToBag({CHOOSE r \in BagToSet(all) : r.id = b.id : b \in BagToSet(all)})
       IN  /\ nodes' = create_book_nodes(nodes, batch)
           /\ Advance("LOAD_BOOKS", <<<<"books", BagCardinality(all)>>>>)
    /\ UNCHANGED <<edges, indexes, completed, handles, doneGraphs>>

LoadBooks ==
    /\ pc = "LOAD_SUBJECTS"
    /\ LET books == BagOfAll(BookRecord, SelectBooks(pg))
       IN  /\ nodes' = create_book_nodes(nodes, books)
           /\ Advance("LOAD_BOOKS", <<<<"books", BagCardinality(books)>>>>)
    /\ UNCHANGED <<edges, indexes, completed, handles, doneGraphs>>

LoadPrices ==
    /\ pc = "LOAD_BOOKS"
    /\ LET prices == BagOfAll(PriceRecord, SelectAll(pg, "Price"))
           g == create_price_nodes(nodes, edges, prices)
       IN  /\ nodes' = g.nodes
           /\ edges' = g.edges
           /\ Advance("LOAD_PRICES", <<<<"prices", BagCardinality(prices)>>>>)
    /\ UNCHANGED <<indexes, completed, handles, doneGraphs>>

\* A stage that raises when a pair of its batch matches no nodes.
LinkStrict(prev, stage, table, rel_type, node_type, what) ==
    /\ pc = prev
    /\ LET rels == BagOfAll(RelRecord, SelectAll(pg, table))
       IN  /\ \A rel \in BagToSet(rels) :
                  \E b \in NodesOf(nodes, "Book"), e \in NodesOf(nodes, node_type) :
                      CypherEq(b.props.id, rel.book_id) /\ CypherEq(e.props.id, rel.entity_id)
           /\ edges' = create_relationships(nodes, edges, rels, rel_type, node_type)
           /\ Advance(stage, <<<<what, BagCardinality(rels)>>>>)
    /\ UNCHANGED <<nodes, indexes, completed, handles, doneGraphs>>

\* A stage that prints the number of relationships the statement created.
LinkPrintsCreated(prev, stage, table, rel_type, node_type, what) ==
    /\ pc = prev
    /\ LET rels == BagOfAll(RelRecord, SelectAll(pg, table))
       IN  /\ edges' = create_relationships(nodes, edges, rels, rel_type, node_type)
           /\ Advance(stage, <<<<what, BagCardinality(MatchCreate(nodes, rels, rel_type, node_type))>>>>)
    /\ UNCHANGED <<nodes, indexes, completed, handles, doneGraphs>>

\* One of the four stages that read a join table.
Link(prev, stage, table, rel_type, node_type, what) ==
    /\ pc = prev
    /\ LET rels == BagOfAll(RelRecord, SelectAll(pg, table))
       IN  /\ edges' = create_relationships(nodes, edges, rels, rel_type, node_type)
           /\ Advance(stage, <<<<what, BagCardinality(rels)>>>>)
    /\ UNCHANGED <<nodes, indexes, completed, handles, doneGraphs>>

LinkAuthors ==
    Link("LOAD_PRICES", "LINK_AUTHORS", "BookAuthor", "AUTHORED_BY", "Author", "book-author")

LinkPublishers ==
    Link("LINK_AUTHORS", "LINK_PUBLISHERS", "BookPublisher", "PUBLISHED_BY", "Publisher",
         "book-publisher")

LinkCategories ==
    Link("LINK_PUBLISHERS", "LINK_CATEGORIES", "BookCategory", "CATEGORIZED_AS", "Category",
         "book-category")

LinkSubjects ==
    Link("LINK_CATEGORIES", "LINK_SUBJECTS", "BookSubject", "HAS_SUBJECT", "Subject",
         "book-subject")

\* A run that reports completion without the last LINK stage.
DoneEarly ==
    /\ pc = "LINK_CATEGORIES"
    /\ handles' = [handles EXCEPT !.session = "closed"]
    /\ completed' = TRUE
    /\ doneGraphs' = Append(doneGraphs, [nodes |-> nodes, edges |-> edges])
    /\ Advance("DONE", <<>>)
    /\ UNCHANGED <<nodes, edges, indexes>>

\* The with block ends, main() returns and the completion line is printed.
Done ==
    /\ pc = "LINK_SUBJECTS"
    /\ handles' = [handles EXCEPT !.session = "closed"]
    /\ completed' = TRUE
    /\ doneGraphs' = Append(doneGraphs, [nodes |-> nodes, edges |-> edges])
    /\ Advance("DONE", <<>>)
    /\ UNCHANGED <<nodes, edges, indexes>>

\* A failure that is caught and passed over.
FailSwallowed ==
    /\ pc \in ({"START"} \cup StageSet) \ {"LINK_SUBJECTS", "DONE"}
    /\ failedAt' = NextStage(pc)
    /\ pc' = NextStage(pc)
    /\ trace' = Append(trace, NextStage(pc))
    /\ handles' = [handles EXCEPT !.session = "open"]
    /\ UNCHANGED <<pg, nodes, edges, indexes, log, completed, runs, doneGraphs, mainVars, insertVars, apiVars>>

\* A failure in which create_price_nodes' first statement stays committed
\* when its second one raises.
FailKeepsFirstStatement ==
    /\ pc \in ({"START"} \cup StageSet) \ {"LINK_SUBJECTS", "DONE"}
    /\ failedAt' = NextStage(pc)
    /\ pc' = "ABORTED"
    /\ handles' = [handles EXCEPT !.session = IF pc = "START" THEN @ ELSE "closed"]
    /\ nodes' = IF pc = "LOAD_BOOKS"
                  THEN PriceNodes(nodes, BagOfAll(PriceRecord, SelectAll(pg, "Price")))
                  ELSE nodes
    /\ UNCHANGED <<pg, edges, indexes, trace, log, completed, runs, doneGraphs, mainVars, insertVars, apiVars>>

\* The statement of the next stage raises (a relational read or a graph write):
\* the failed write is rolled back, the exception leaves the with block and
\* main(), and the process ends with a traceback.
Fail ==
    /\ pc \in ({"START"} \cup StageSet) \ {"LINK_SUBJECTS", "DONE"}
    /\ failedAt' = NextStage(pc)
    /\ pc' = "ABORTED"
    /\ handles' = [handles EXCEPT !.session = IF pc = "START" THEN @ ELSE "closed"]
    /\ UNCHANGED <<pg, nodes, edges, indexes, trace, log, completed, runs, doneGraphs, mainVars, insertVars, apiVars>>

\* The script is started again, on the graph the earlier run left.
Rerun ==
    /\ pc \in {"DONE", "ABORTED"}
    /\ runs < MaxRuns
    /\ runs' = runs + 1
    /\ pc' = "START"
    /\ trace' = <<>>
    /\ failedAt' = "none"
    /\ log' = <<>>
    /\ completed' = FALSE
    /\ handles' = Fresh
    /\ UNCHANGED <<pg, nodes, edges, indexes, doneGraphs, mainVars, insertVars, apiVars>>

Stage ==
    \/ Reset
    \/ Index
    \/ LoadPublishers
    \/ LoadAuthors
    \/ LoadCategories
    \/ LoadSubjects
    \/ LoadBooks
    \/ LoadPrices
    \/ LinkAuthors
    \/ LinkPublishers
    \/ LinkCategories
    \/ LinkSubjects
    \/ Done

Next ==
    \/ Stage
    \/ Fail
    \/ Rerun

Spec == Init /\ [][Next]_vars

TypeOK ==
    /\ pc \in {"START", "ABORTED"} \cup StageSet
    /\ runs \in 1..MaxRuns
    /\ indexes \subseteq IndexNames

(* ---------------- vocabulary of the properties ---------------- *)
BagOn(B, S) == [x \in S |-> B[x]]

\* Number of nodes labeled label, and of those with a given id.
CountLabel(ns, label) == BagCardinality(BagOn(ns, NodesOf(ns, label)))
CountId(ns, label, id) ==
    BagCardinality(BagOn(ns, {n \in NodesOf(ns, label) : n.props.id = id}))

EdgesOf(es, type) == {e \in BagToSet(es) : e.type = type}
CountType(es, type) == BagCardinality(BagOn(es, EdgesOf(es, type)))
\* Number of edges of a type between a Book id and an entity id.
CountPair(es, type, bookId, entityId) ==
    BagCardinality(BagOn(es, {e \in EdgesOf(es, type) :
        e.from.props.id = bookId /\ e.to.props.id = entityId}))

\* Where each relationship type comes from and where it points.
SourceTable == [AUTHORED_BY |-> "BookAuthor", PUBLISHED_BY |-> "BookPublisher",
                CATEGORIZED_AS |-> "BookCategory", HAS_SUBJECT |-> "BookSubject",
                PRICED_AT |-> "Price"]
TargetLabel == [AUTHORED_BY |-> "Author", PUBLISHED_BY |-> "Publisher",
                CATEGORIZED_AS |-> "Category", HAS_SUBJECT |-> "Subject",
                PRICED_AT |-> "Price"]
RelStage == [AUTHORED_BY |-> "LINK_AUTHORS", PUBLISHED_BY |-> "LINK_PUBLISHERS",
             CATEGORIZED_AS |-> "LINK_CATEGORIES", HAS_SUBJECT |-> "LINK_SUBJECTS",
             PRICED_AT |-> "LOAD_PRICES"]
RowBookId(type, row) == IF type = "PRICED_AT" THEN row[2] ELSE row[1]
RowEntityId(type, row) == IF type = "PRICED_AT" THEN row[1] ELSE row[2]

\* Both ids of the row name a node of the graph.
Matched(ns, type, row) ==
    /\ RowBookId(type, row) # NULL
    /\ CountId(ns, "Book", RowBookId(type, row)) > 0
    /\ CountId(ns, TargetLabel[type], RowEntityId(type, row)) > 0

Ran(stage) == \E i \in 1..Len(trace) : trace[i] = stage

\* Which satellite rows a Book row has, and which satellite fields a node has.
HasSatellite(db, t, b) == \E r \in db[t] : r[1] = b[1]
RowShape(db, b) == [t \in SatelliteTables |-> HasSatellite(db, t, b)]
NodeShape(n) == [t \in SatelliteTables |->
                    CASE t = "Ratings" -> n.props.ratings_count # NULL
                      [] t = "PhysicalBook" -> n.props.format # NULL
                      [] t = "EBook" -> n.props.ebook_url # NULL]

(* ---------------- C1 ---------------- *)
\* C1: after a run that reaches DONE, each of the six entity types has as many
\* nodes as its table has rows, and for every combination of present and
\* absent Ratings, PhysicalBook and EBook rows there are as many Book nodes
\* with that combination of satellite fields as Book rows with it.
C1_NodeCounts ==
    pc = "DONE" =>
        /\ \A l \in Labels : CountLabel(nodes, l) = Cardinality(pg[l])
        /\ \A c \in [SatelliteTables -> BOOLEAN] :
              BagCardinality(BagOn(nodes, {n \in NodesOf(nodes, "Book") : NodeShape(n) = c}))
              = Cardinality({b \in pg["Book"] : RowShape(pg, b) = c})

\* A completed run over a source with a book that has all three satellite
\* rows and a book that has none.
C1_Witness ==
    /\ pc = "DONE"
    /\ \E b \in pg["Book"] : \A t \in SatelliteTables : HasSatellite(pg, t, b)
    /\ \E b \in pg["Book"] : \A t \in SatelliteTables : ~HasSatellite(pg, t, b)
    /\ \A l \in Labels : CountLabel(nodes, l) > 0

(* ---------------- C2 ---------------- *)
\* C2: after a run that reaches DONE, every relationship type has exactly one
\* edge for each source row (join-table row, Price row for PRICED_AT) whose
\* book id and entity id both name a node, and none for the other rows, so the
\* number of edges of the type is the number of such rows.
C2_EdgeCounts ==
    pc = "DONE" =>
        \A type \in RelTypes :
            /\ \A row \in pg[SourceTable[type]] :
                  CountPair(edges, type, RowBookId(type, row), RowEntityId(type, row))
                  = IF Matched(nodes, type, row) THEN 1 ELSE 0
            /\ CountType(edges, type)
               = Cardinality({row \in pg[SourceTable[type]] : Matched(nodes, type, row)})

\* A completed run in which some relationship type has both an edge and a row
\* that got none, and PRICED_AT has an edge.
C2_Witness ==
    /\ pc = "DONE"
    /\ \E type \in RelTypes \ {"PRICED_AT"} :
          /\ CountType(edges, type) > 0
          /\ \E row \in pg[SourceTable[type]] : ~Matched(nodes, type, row)
    /\ CountType(edges, "PRICED_AT") > 0

(* ---------------- C3 ---------------- *)
\* The graph a source determines: one node per row, one edge per row whose
\* ids both name a row of the tables it joins.
GraphNodesOf(db) ==
    SetToBag(UNION {{Node(t, NameRecord(r)) : r \in db[t]} : t \in NameTables}
             \cup {Node("Book", b) : b \in BagToSet(BagOfAll(BookRecord, SelectBooks(db)))}
             \cup {Node("Price", [f \in DOMAIN PriceRecord(r) \ {"book_id"} |-> PriceRecord(r)[f]]) :
                     r \in db["Price"]})
GraphEdgesOf(db) ==
    LET ns == BagToSet(GraphNodesOf(db))
    IN  SetToBag({x \in {Edge(type, b, e) : type \in RelTypes,
                                            b \in {n \in ns : n.label = "Book"}, e \in ns} :
                    /\ x.to.label = TargetLabel[x.type]
                    /\ \E row \in db[SourceTable[x.type]] :
                          /\ RowBookId(x.type, row) = x.from.props.id
                          /\ RowEntityId(x.type, row) = x.to.props.id})

\* C3: the graph of a completed run depends on the relational source alone:
\* whatever the destination held when the run started, the run ends with the
\* node bag and edge bag the source determines, and all completed runs over
\* the unchanged source have ended with the same graph.
C3_Idempotent ==
    /\ pc = "DONE" => nodes = GraphNodesOf(pg) /\ edges = GraphEdgesOf(pg)
    /\ \A i, j \in 1..Len(doneGraphs) : doneGraphs[i] = doneGraphs[j]

\* The migration was run twice in succession and completed both times.
C3_Witness ==
    /\ pc = "DONE"
    /\ runs = 2
    /\ Len(doneGraphs) = 2
    /\ edges # EmptyBag

(* ---------------- C4 ---------------- *)
\* C4: after a completed migration every primary key k of an entity table has
\* exactly one node of that label with id = k, and every node of the label
\* carries the primary key of a row of the table; so a Book node's id is its
\* book_id and no two Book nodes share an id.
C4_Identity ==
    pc = "DONE" =>
        \A l \in Labels :
            /\ \A r \in pg[l] : CountId(nodes, l, r[1]) = 1
            /\ \A n \in NodesOf(nodes, l) : \E r \in pg[l] : r[1] = n.props.id

\* A completed run that produced at least two Book nodes and a node of every
\* other label.
C4_Witness ==
    /\ pc = "DONE"
    /\ Cardinality(NodesOf(nodes, "Book")) >= 2
    /\ \A l \in Labels : NodesOf(nodes, l) # {}

(* ---------------- C5 ---------------- *)
NodeStages == {"LOAD_PUBLISHERS", "LOAD_AUTHORS", "LOAD_CATEGORIES", "LOAD_SUBJECTS",
               "LOAD_BOOKS", "LOAD_PRICES"}
LinkStages == {"LINK_AUTHORS", "LINK_PUBLISHERS", "LINK_CATEGORIES", "LINK_SUBJECTS"}
Before(i) == {trace[j] : j \in 1..(i - 1)}

\* C5: a LINK stage runs only after all six node stages; the PRICED_AT batch
\* of LOAD_PRICES runs after the five other node stages and after the Price
\* nodes of its own stage (every Price row of an existing book has its edge as
\* soon as the stage is over); and in every state both endpoints of every edge
\* are nodes of the graph.
C5_NodesBeforeEdges ==
    /\ \A i \in 1..Len(trace) :
          /\ trace[i] \in LinkStages => NodeStages \subseteq Before(i)
          /\ trace[i] = "LOAD_PRICES" => (NodeStages \ {"LOAD_PRICES"}) \subseteq Before(i)
    /\ Ran("LOAD_PRICES") =>
          \A row \in pg["Price"] :
              Matched(nodes, "PRICED_AT", row) =>
                  CountPair(edges, "PRICED_AT", row[2], row[1]) > 0
    /\ \A e \in BagToSet(edges) : BagIn(e.from, nodes) /\ BagIn(e.to, nodes)

\* The first LINK stage is over and the graph holds PRICED_AT and AUTHORED_BY
\* edges.
C5_Witness ==
    /\ pc = "LINK_AUTHORS"
    /\ CountType(edges, "PRICED_AT") > 0
    /\ CountType(edges, "AUTHORED_BY") > 0

(* ---------------- C6 ---------------- *)
\* main() is straight-line code: a stage that has started runs to its end
\* unless it raises.  Which stage follows which does not depend on the rows,
\* so the runs over the catalogue and over the catalogue less one row are
\* followed.
LiveInit ==
    /\ Init
    /\ pg \in {[t \in Tables |-> TableOf(F, t)] : F \in {BaseFacts} \cup {BaseFacts \ {f} : f \in BaseFacts}}
LiveSpec == LiveInit /\ [][Next]_vars /\ WF_vars(Stage)

IsPrefix(a, b) == Len(a) <= Len(b) /\ \A i \in 1..Len(a) : a[i] = b[i]

\* C6: the stages a run has executed are always an initial part of RESET,
\* INDEX, LOAD_PUBLISHERS, ..., LINK_SUBJECTS, DONE in this order (none
\* skipped, repeated or reordered), the run stands at the last of them, and a
\* run that has started eventually reaches DONE unless a stage raised.
C6_StageOrder ==
    /\ [](/\ IsPrefix(trace, Stages)
          /\ pc \in StageSet => trace # <<>> /\ pc = trace[Len(trace)])
    /\ [](pc = "START" => <>(pc = "DONE" \/ failedAt # "none"))

\* A run that executed all thirteen stages.
C6_Witness ==
    /\ pc = "DONE"
    /\ trace = Stages
    /\ failedAt = "none"

(* ---------------- C7 ---------------- *)
\* C7: once a relationship batch has run, a source row whose book id or entity
\* id names no node has no edge while the other rows of the batch have
\* theirs, and a batch with such rows does not stop the run: the stage that
\* reads it can complete, and so can DONE after the last one.
C7_DanglingSkipped ==
    /\ \A type \in RelTypes :
          Ran(RelStage[type]) =>
              \A row \in pg[SourceTable[type]] :
                  LET n == CountPair(edges, type, RowBookId(type, row), RowEntityId(type, row))
                  IN  IF Matched(nodes, type, row) THEN n >= 1 ELSE n = 0
    /\ pc = "LOAD_BOOKS" => ENABLED LoadPrices
    /\ pc = "LOAD_PRICES" => ENABLED LinkAuthors
    /\ pc = "LINK_AUTHORS" => ENABLED LinkPublishers
    /\ pc = "LINK_PUBLISHERS" => ENABLED LinkCategories
    /\ pc = "LINK_CATEGORIES" => ENABLED LinkSubjects
    /\ pc = "LINK_SUBJECTS" => ENABLED Done

\* A completed run over a join table with a row that names a missing node and
\* a row that names two existing ones.
C7_Witness ==
    /\ pc = "DONE"
    /\ failedAt = "none"
    /\ \E type \in RelTypes \ {"PRICED_AT"} :
          \E r1, r2 \in pg[SourceTable[type]] :
              /\ ~Matched(nodes, type, r1)
              /\ CountPair(edges, type, r1[1], r1[2]) = 0
              /\ Matched(nodes, type, r2)
              /\ CountPair(edges, type, r2[1], r2[2]) = 1

(* ---------------- C8 ---------------- *)
PricesOfBook(db, b) == {r \in db["Price"] : r[2] = b[1]}
Incoming(es, type, n) == BagCardinality(BagOn(es, {e \in EdgesOf(es, type) : e.to = n}))
Outgoing(es, type, n) == BagCardinality(BagOn(es, {e \in EdgesOf(es, type) : e.from = n}))

\* C8: after a completed migration a Book with n Price rows has n distinct
\* Price nodes, each joined to the one Book node by one PRICED_AT edge, and n
\* outgoing PRICED_AT edges in all; a Price node has one incoming PRICED_AT
\* edge when its row's book_id names a Book and none otherwise.
C8_PricesPerBook ==
    pc = "DONE" =>
        /\ \A b \in pg["Book"] :
              LET P == PricesOfBook(pg, b)
              IN  /\ Cardinality({n \in NodesOf(nodes, "Price") :
                                    \E r \in P : n.props.id = r[1]}) = Cardinality(P)
                  /\ \A r \in P : /\ CountId(nodes, "Price", r[1]) = 1
                                  /\ CountPair(edges, "PRICED_AT", b[1], r[1]) = 1
                  /\ \A n \in NodesOf(nodes, "Book") :
                        n.props.id = b[1] => Outgoing(edges, "PRICED_AT", n) = Cardinality(P)
        /\ \A n \in NodesOf(nodes, "Price") :
              Incoming(edges, "PRICED_AT", n) =
                  IF \E r \in pg["Price"] : \E b \in pg["Book"] :
                         r[1] = n.props.id /\ r[2] = b[1]
                  THEN 1 ELSE 0

\* A completed run over a source where one book has two Price rows and
\* another has none.
C8_Witness ==
    /\ pc = "DONE"
    /\ \E b \in pg["Book"] : Cardinality(PricesOfBook(pg, b)) = 2
    /\ \E b \in pg["Book"] : PricesOfBook(pg, b) = {}
    /\ CountType(edges, "PRICED_AT") = 2

(* ---------------- C9 ---------------- *)
\* C9: from RESET on, every edge of the graph has a relationship type of the
\* migration, starts at a Book node, ends at a node of the label of its type
\* (never a Book), and carries the book id and entity id of a row of the
\* table its type is read from.
C9_EdgeShape ==
    Ran("RESET") =>
        \A e \in BagToSet(edges) :
            /\ e.type \in RelTypes
            /\ e.from.label = "Book"
            /\ e.to.label = TargetLabel[e.type]
            /\ e.to.label # "Book"
            /\ \E row \in pg[SourceTable[e.type]] :
                  /\ RowBookId(e.type, row) = e.from.props.id
                  /\ RowEntityId(e.type, row) = e.to.props.id

\* A completed run that created an edge of each of the five types.
C9_Witness ==
    /\ pc = "DONE"
    /\ \A type \in RelTypes : CountType(edges, type) > 0

(* ---------------- C10 ---------------- *)
\* The stage main() was about to execute when it stands after trace.
Pending(tr) == IF tr = <<>> THEN "RESET" ELSE NextStage(tr[Len(tr)])

\* C10: once a stage has raised, the run is over: the failed stage is the one
\* after the last completed stage and is not among the executed ones, DONE was
\* not reached, completion is not reported, and the only step left is a new
\* start of the script, which begins again at RESET.
C10_FailHalts ==
    /\ [](failedAt # "none" =>
            /\ pc = "ABORTED"
            /\ failedAt = Pending(trace)
            /\ ~Ran(failedAt)
            /\ ~Ran("DONE")
            /\ ~completed)
    /\ [][failedAt # "none" =>
            \/ UNCHANGED <<pc, failedAt, trace, log, completed, nodes, edges, indexes>>
            \/ pc' = "START" /\ runs' = runs + 1 /\ trace' = <<>> /\ failedAt' = "none"]_vars

\* LOAD_BOOKS raised after four node stages had filled part of the graph.
C10_Witness ==
    /\ pc = "ABORTED"
    /\ failedAt = "LOAD_BOOKS"
    /\ nodes # EmptyBag
    /\ ~completed

(* ---------------- C11 ---------------- *)
\* C11: whenever the run has ended, after all stages or after a failure, the
\* relational connection is closed and no graph session is left open.
C11_HandlesClosed ==
    pc \in {"DONE", "ABORTED"} =>
        /\ handles.pg_conn = "closed"
        /\ handles.session # "open"

(* ---------------- sparse sources: NULL and zero columns ---------------- *)
\* The columns of each table and of the joined book row, in SELECT order, by
\* the name the projection gives them.
NameFields == <<"id", "name">>
BookFields ==
    <<"id", "isbn10", "isbn13", "title", "subtitle", "description",
      "language_code", "publication_year", "page_count", "maturity_rating",
      "google_books_id", "google_preview_link", "google_info_link",
      "google_canonical_link", "avg_rating", "ratings_count", "format",
      "ebook_url">>
PriceFields ==
    <<"id", "book_id", "country", "on_sale_date", "saleability", "list_price",
      "retail_price", "list_price_currency_code", "retail_price_currency_code",
      "buy_link">>

\* The numeric columns of a table besides its key.
NumericCols(t) ==
    CASE t = "Price" -> {6, 7}
      [] t = "Ratings" -> {2, 3}
      [] t = "Book" -> {8, 9}
      [] OTHER -> {}

Zero(v) == [v EXCEPT ![Len(v)] = 0]

\* The rows a row of table t may be instead: one column that is not the key
\* holds NULL, or one numeric column holds zero.
SparseRows(t, row) ==
    {[row EXCEPT ![i] = NULL] : i \in 2..Len(row)}
    \cup {[row EXCEPT ![i] = Zero(row[i])] : i \in NumericCols(t)}

\* The base catalogue, and the base catalogue with one sparse row.
SparseDatabases ==
    {[t \in Tables |-> TableOf(BaseFacts, t)]}
    \cup UNION {{[t \in Tables |-> TableOf((BaseFacts \ {f}) \cup {<<f[1], r>>}, t)] :
                    r \in SparseRows(f[1], f[2])} :
                f \in {g \in BaseFacts : g[1] \notin JoinTables}}

\* The migration over a sparse source.
SparseInit ==
    /\ MainIdle
    /\ InsertIdle
    /\ ApiIdle
    /\ pg \in SparseDatabases
    /\ \/ nodes = EmptyBag /\ edges = EmptyBag
       \/ nodes = StaleNodes /\ edges = StaleEdges
    /\ indexes = {}
    /\ pc = "START"
    /\ trace = <<>>
    /\ failedAt = "none"
    /\ log = <<>>
    /\ completed = FALSE
    /\ handles = Fresh
    /\ runs = 1
    /\ doneGraphs = <<>>

SparseSpec == SparseInit /\ [][Next]_vars

\* The columns of the row a node of a label was made from, by field name.
FieldsOf(label) ==
    CASE label = "Book" -> BookFields
      [] label = "Price" -> PriceFields
      [] OTHER -> NameFields

\* The rows the load stage of a label reads.
RowsOf(db, label) ==
    IF label = "Book" THEN BagToSet(SelectBooks(db)) ELSE db[label]

LoadStage(label) ==
    CASE label = "Book" -> "LOAD_BOOKS"
      [] label = "Price" -> "LOAD_PRICES"
      [] label = "Publisher" -> "LOAD_PUBLISHERS"
      [] label = "Author" -> "LOAD_AUTHORS"
      [] label = "Category" -> "LOAD_CATEGORIES"
      [] label = "Subject" -> "LOAD_SUBJECTS"

(* ---------------- C12 ---------------- *)
\* C12: once the load stage of a label has run, every attribute of a node
\* whose column in the row it was made from is NULL is null: the satellite
\* attributes of a Book without satellite rows, a Price's on_sale_date,
\* list_price and retail_price, and every other field.
C12_NullPropagates ==
    \A label \in Labels :
        (Ran("RESET") /\ Ran(LoadStage(label))) =>
            \A row \in RowsOf(pg, label) :
                \A n \in {m \in NodesOf(nodes, label) : m.props.id = row[1]} :
                    \A i \in 1..Len(FieldsOf(label)) :
                        (FieldsOf(label)[i] \in DOMAIN n.props /\ row[i] = NULL)
                            => n.props[FieldsOf(label)[i]] = NULL

(* ---------------- C13 ---------------- *)
\* What a column value holds, whatever its type.
Content(v) == v[Len(v)]

\* C13: once the load stage of a label has run, every attribute of a node
\* whose column in the row it was made from is not NULL holds the content of
\* that column, a zero list_price, retail_price or avg_rating included, and is
\* never null.
C13_ValueKept ==
    \A label \in Labels :
        (Ran("RESET") /\ Ran(LoadStage(label))) =>
            \A row \in RowsOf(pg, label) :
                \A n \in {m \in NodesOf(nodes, label) : m.props.id = row[1]} :
                    \A i \in 1..Len(FieldsOf(label)) :
                        (FieldsOf(label)[i] \in DOMAIN n.props /\ row[i] # NULL)
                            => /\ n.props[FieldsOf(label)[i]] # NULL
                               /\ Content(n.props[FieldsOf(label)[i]]) = Content(row[i])

(* ---------------- C14 ---------------- *)
\* C14: RESET leaves the graph without nodes and edges whatever it held, and
\* from then on every step of the run keeps each node and each edge it finds,
\* unchanged and as many times as it is there: the graph only grows.
C14_OnlyGrows ==
    /\ [](pc = "RESET" => nodes = EmptyBag /\ edges = EmptyBag)
    /\ [][(Ran("RESET") /\ runs' = runs) =>
            (nodes \sqsubseteq nodes' /\ edges \sqsubseteq edges')]_vars

\* The second run has wiped the graph of a completed first run and has grown
\* it again up to the first relationship stage.
C14_Witness ==
    /\ runs = 2
    /\ Len(doneGraphs) = 1
    /\ pc = "LINK_AUTHORS"
    /\ doneGraphs[1].nodes # EmptyBag
    /\ CountType(edges, "PRICED_AT") > 0
    /\ CountType(edges, "AUTHORED_BY") > 0

(* ---------------- C15 ---------------- *)
\* C15: from RESET on, every node of the graph carries exactly the attributes
\* projected for its label, and a Price node carries in book_id the book_id of
\* the Price row with its id.
C15_NodeAttributes ==
    Ran("RESET") =>
        \A n \in BagToSet(nodes) :
            /\ DOMAIN n.props = {FieldsOf(n.label)[i] : i \in 1..Len(FieldsOf(n.label))}
            /\ n.label = "Price" =>
                  \E row \in pg["Price"] : row[1] = n.props.id /\ n.props.book_id = row[2]

(* ---------------- C16 ---------------- *)
\* C16: the index stage follows RESET and comes before every node stage; once
\* it has run, and so whenever the run has inserted a node, the id index of
\* each of the six labels exists; no step removes an index; and on a graph
\* whose indexes exist already, the index stage can still run and leaves the
\* set of indexes as it is.
C16_IndexesFirst ==
    /\ [](\A i \in 1..Len(trace) :
            /\ trace[i] = "INDEX" => "RESET" \in Before(i)
            /\ trace[i] \in NodeStages => "INDEX" \in Before(i))
    /\ [](Ran("INDEX") => indexes = IndexNames)
    /\ []((Ran("RESET") /\ nodes # EmptyBag) => indexes = IndexNames)
    /\ [][indexes \subseteq indexes']_vars
    /\ [](pc = "RESET" => ENABLED Index)
    /\ [][(pc = "RESET" /\ pc' = "INDEX" /\ indexes = IndexNames) => indexes' = indexes]_vars

\* The index stage of a second run, after a first run that completed and left
\* its six indexes behind.
C16_Witness ==
    /\ runs = 2
    /\ Len(doneGraphs) = 1
    /\ pc = "INDEX"
    /\ indexes = IndexNames

(* ---------------- C20 ---------------- *)
\* The four relationship types of the LINK stages and the word each stage
\* prints its number with.
LinkTypes == RelTypes \ {"PRICED_AT"}
LinkWhat == [AUTHORED_BY |-> "book-author", PUBLISHED_BY |-> "book-publisher",
             CATEGORIZED_AS |-> "book-category", HAS_SUBJECT |-> "book-subject"]

\* The numbers printed so far for the relationships of a type.
Printed(type) == {log[i][2] : i \in {j \in 1..Len(log) : log[j][1] = LinkWhat[type]}}

\* The rows of the type's join table that do not name two nodes of the graph.
Dangling(type) == {row \in pg[SourceTable[type]] : ~Matched(nodes, type, row)}

\* C20 as stated: a LINK stage that has run has printed one number, the number
\* of edges of its type in the graph.
C20_PrintedIsCreated ==
    \A type \in LinkTypes :
        Ran(RelStage[type]) => Printed(type) = {CountType(edges, type)}

\* C20, amended: a LINK stage that has run has printed one number, the number
\* of rows it read from its join table; the edges of its type are that number
\* less the dangling rows, so the two agree exactly when no row dangles.
C20_PrintedIsRead ==
    \A type \in LinkTypes :
        Ran(RelStage[type]) =>
            /\ Printed(type) = {Cardinality(pg[SourceTable[type]])}
            /\ CountType(edges, type)
               = Cardinality(pg[SourceTable[type]]) - Cardinality(Dangling(type))

\* A completed run in which one stage printed more relationships than it
\* created and another printed exactly what it created.
C20_Witness ==
    /\ pc = "DONE"
    /\ \E type \in LinkTypes :
          Dangling(type) # {} /\ \A n \in Printed(type) : n > CountType(edges, type)
    /\ \E type \in LinkTypes :
          Dangling(type) = {} /\ Printed(type) = {CountType(edges, type)}
          /\ CountType(edges, type) > 0

(***************************************************************************)
(* main.py: BookDataPipeline, with the two API clients of fetch.py.        *)
(*                                                                         *)
(* A book is a Python dict, here a function from its keys to values.  A    *)
(* scalar value is a column value as above; a list is a sequence; an       *)
(* author of Google Books is a name, an author of Open Library is a dict   *)
(* {"name", "key"}, here <<"dict", name, key>>; price_info is the tuple    *)
(* of its six values.                                                      *)
(***************************************************************************)
MaxLimit == 2
MaxBooks == 2

\* The variables of the migration besides the database.
graphVars == <<nodes, edges, indexes, pc, trace, failedAt, log, completed,
               handles, runs, doneGraphs>>

EmptyDb == [t \in Tables |-> {}]

\* transfer.py is not running.
MigrationIdle ==
    /\ nodes = EmptyBag
    /\ edges = EmptyBag
    /\ indexes = {}
    /\ pc = "START"
    /\ trace = <<>>
    /\ failedAt = "none"
    /\ log = <<>>
    /\ completed = FALSE
    /\ handles = Fresh
    /\ runs = 1
    /\ doneGraphs = <<>>

\* The methods class GoogleBooksAPI defines.
GoogleBooksMethods ==
    {"__init__", "rotate_api_key", "get_current_api_key", "_api_request",
     "search_books", "fetch_book_data", "_parse_book_data"}

\* The dict GoogleBooksAPI._parse_book_data returns for volume k.
GoogleBook(k) ==
    [title |-> T("title", k), subtitle |-> T("subtitle", k),
     description |-> T("description", k), authors |-> <<T("name", k)>>,
     publisher |-> T("name", k), published_year |-> T("year", 2000 + k),
     isbn_10 |-> T("isbn10", k), isbn_13 |-> T("isbn13", k),
     page_count |-> V(100 + k), categories |-> <<T("name", k)>>,
     language_code |-> T("lang", k), maturity_rating |-> T("maturity", k % 2),
     average_rating |-> T("float", k), ratings_count |-> V(10 + k),
     physical_format |-> T("format", 2),
     price_info |-> <<T("float", 10 * k), T("float", 9 * k), T("cur", k),
                      T("saleability", k), T("link", k), T("date", k)>>,
     isEbook |-> T("bool", 0), google_books_id |-> T("gbid", k),
     google_preview_link |-> T("preview", k), google_info_link |-> T("info", k),
     google_canonical_link |-> T("canonical", k)]

\* The dict OpenLibraryAPI._parse_book_data returns for a full answer about
\* volume k, and for an answer that has only a publish date, a page count
\* and subjects (without a publish date the parser raises).
OpenLibraryBook(k) ==
    [title |-> T("oltitle", k), subtitle |-> T("olsubtitle", k),
     authors |-> <<<<"dict", T("name", k), T("key", k)>>>>,
     publisher |-> T("name", k), published_year |-> T("year", 2000 + k),
     isbn_10 |-> T("isbn10", k), isbn_13 |-> T("isbn13", k),
     page_count |-> V(200 + k), subjects |-> <<T("name", k)>>,
     ebook_url |-> T("url", k)]

OpenLibrarySparse(k) ==
    [title |-> NULL, subtitle |-> NULL, authors |-> <<>>, publisher |-> NULL,
     published_year |-> T("year", 2000 + k), isbn_10 |-> NULL, isbn_13 |-> NULL,
     page_count |-> V(200 + k), subjects |-> <<T("name", k)>>,
     ebook_url |-> NULL]

\* What a call of open_library_api.fetch_by_isbn does: it raises, returns
\* None, or returns a parsed dict.
Raises == <<"raise">>
Nothing == <<"none">>
Found(data) == <<"data", data>>

\* The books enrich_books may be given, each with what the lookup of its
\* isbn_13 does; a book without isbn_13 is not looked up.
Fetchable ==
    {<<[GoogleBook(k) EXCEPT !.isbn_13 = NULL], Nothing>> : k \in Ids}
    \cup {<<GoogleBook(k), l>> : k \in Ids, l \in {Raises, Nothing}}
    \cup {<<GoogleBook(k), Found(OpenLibraryBook(k))>> : k \in Ids}
    \cup {<<GoogleBook(k), Found(OpenLibrarySparse(k))>> : k \in Ids}

RECURSIVE SeqsUpTo(_, _)
SeqsUpTo(S, n) ==
    IF n = 0 THEN {<<>>}
    ELSE LET P == SeqsUpTo(S, n - 1)
         IN  P \cup {Append(p, x) : p \in {q \in P : Len(q) = n - 1}, x \in S}

\* {**a, **b}
Merge(a, b) == [k \in DOMAIN a \cup DOMAIN b |-> IF k \in DOMAIN b THEN b[k] ELSE a[k]]

\* An except branch that appends nothing.
EnrichedDropping(book, lookup) ==
    IF Truthy(book.isbn_13)
    THEN CASE lookup = Raises -> <<>>
           [] lookup = Nothing -> <<Merge(book, <<>>)>>
           [] OTHER -> <<Merge(book, lookup[2])>>
    ELSE <<book>>

\* What one pass of enrich_books' loop appends to enriched_books:
\* {**book, **(openlib_data or {})} after a lookup that returned, the book
\* itself after one that raised and for a book without isbn_13.
Enriched(book, lookup) ==
    IF Truthy(book.isbn_13)
    THEN CASE lookup = Raises -> <<book>>
           [] lookup = Nothing -> <<Merge(book, <<>>)>>
           [] OTHER -> <<Merge(book, lookup[2])>>
    ELSE <<book>>

\* enrich_books(books), with the answers the lookups give in call order.
RECURSIVE enrich_books(_, _)
enrich_books(bs, ls) ==
    IF Len(bs) = 0 THEN <<>>
    ELSE Enriched(Head(bs), Head(ls)) \o enrich_books(Tail(bs), Tail(ls))

\* The values process_batch can return: its first statement calls
\* google_books_api.search_books_randomly_with_pagination, the attribute
\* lookup raises AttributeError for a method the class does not define, and
\* the except Exception branch returns False.
process_batch ==
    IF "search_books_randomly_with_pagination" \in GoogleBooksMethods
    THEN BOOLEAN
    ELSE {FALSE}

\* BookDataPipeline() has been constructed (connect_to_db returned a
\* connection or None), run(batch_limit) is about to be called, and a list of
\* books is at hand for enrich_books.
MainInit ==
    /\ MigrationIdle
    /\ pg = EmptyDb
    /\ InsertIdle
    /\ ApiIdle
    /\ batch_limit \in {NULL} \cup {V(n) : n \in 0..MaxLimit}
    /\ batch_count = 0
    /\ connection \in {"open", "none"}
    /\ rpc = "start"
    /\ \E s \in SeqsUpTo(Fetchable, MaxBooks) :
          /\ fetched = [i \in 1..Len(s) |-> s[i][1]]
          /\ lookups = [i \in 1..Len(s) |-> s[i][2]]
    /\ enriched = [called |-> FALSE, out |-> <<>>]

\* if not self.connection: return; otherwise batch_count = 0 and the loop.
RunEnter ==
    /\ rpc = "start"
    /\ rpc' = IF connection = "none" THEN "returned" ELSE "while"
    /\ batch_count' = 0
    /\ UNCHANGED <<batch_limit, connection, fetched, lookups, enriched>>
    /\ UNCHANGED <<pg, graphVars, insertVars, apiVars>>

\* while batch_limit is None or batch_count < batch_limit
WhileCondition == IF batch_limit = NULL THEN TRUE ELSE batch_count < batch_limit[1]

WhileTest ==
    /\ rpc = "while"
    /\ WhileCondition
    /\ rpc' = "batch"
    /\ UNCHANGED <<batch_limit, batch_count, connection, fetched, lookups, enriched>>
    /\ UNCHANGED <<pg, graphVars, insertVars, apiVars>>

\* The loop ends; finally: self.connection.close().
WhileExit ==
    /\ rpc = "while"
    /\ ~WhileCondition
    /\ connection' = "closed"
    /\ rpc' = "returned"
    /\ UNCHANGED <<batch_limit, batch_count, fetched, lookups, enriched>>
    /\ UNCHANGED <<pg, graphVars, insertVars, apiVars>>

\* if self.process_batch(): batch_count += 1
ProcessBatch ==
    /\ rpc = "batch"
    /\ \E ok \in process_batch :
          batch_count' = IF ok THEN batch_count + 1 ELSE batch_count
    /\ rpc' = "while"
    /\ UNCHANGED <<batch_limit, connection, fetched, lookups, enriched>>
    /\ UNCHANGED <<pg, graphVars, insertVars, apiVars>>

\* except KeyboardInterrupt, then finally: self.connection.close().
Interrupt ==
    /\ rpc \in {"while", "batch"}
    /\ connection' = "closed"
    /\ rpc' = "returned"
    /\ UNCHANGED <<batch_limit, batch_count, fetched, lookups, enriched>>
    /\ UNCHANGED <<pg, graphVars, insertVars, apiVars>>

\* A call of enrich_books(fetched).
Enrich ==
    /\ ~enriched.called
    /\ enriched' = [called |-> TRUE, out |-> enrich_books(fetched, lookups)]
    /\ UNCHANGED <<batch_limit, batch_count, connection, rpc, fetched, lookups>>
    /\ UNCHANGED <<pg, graphVars, insertVars, apiVars>>

\* The statements of run() that follow each other without outside events.
RunStep ==
    \/ RunEnter
    \/ WhileTest
    \/ WhileExit
    \/ ProcessBatch

MainNext ==
    \/ RunStep
    \/ Interrupt
    \/ Enrich

MainSpec == MainInit /\ [][MainNext]_vars

\* run() with a single book at hand for enrich_books; a statement that can
\* be executed is executed, an interrupt may never come.
MainLiveInit ==
    /\ MainInit
    /\ Len(fetched) <= 1
MainLiveSpec == MainLiveInit /\ [][MainNext]_vars /\ WF_vars(RunStep)

(* ---------------- C17 ---------------- *)
\* C17: batch_count grows by one at a time and only in a process_batch step,
\* run() goes into another batch only while batch_count is below batch_limit,
\* it never returns with the connection open, and a run(batch_limit = n) with
\* a number n, started on an open connection, eventually returns with the
\* connection closed.
C17_RunTerminates ==
    /\ [][batch_count' # batch_count =>
            (rpc = "batch" /\ batch_count' = batch_count + 1)]_vars
    /\ [][(rpc = "while" /\ rpc' = "batch") =>
            (batch_limit # NULL => batch_count < batch_limit[1])]_vars
    /\ [](rpc = "returned" => connection # "open")
    /\ ((rpc = "start" /\ connection = "open" /\ batch_limit # NULL)
            ~> (rpc = "returned" /\ connection = "closed"))

(* ---------------- C19 ---------------- *)
\* C19: the list enrich_books returns has one record per input book, in input
\* order (the record at a position has all the keys of the input book at that
\* position, with the book's value for every key Open Library does not answer),
\* and the record of a book that has no isbn_13, or whose lookup raised or
\* returned nothing, is the input book.
C19_EnrichKeepsBooks ==
    enriched.called =>
        /\ Len(enriched.out) = Len(fetched)
        /\ \A i \in 1..Len(fetched) :
              /\ DOMAIN fetched[i] \subseteq DOMAIN enriched.out[i]
              /\ \A key \in DOMAIN fetched[i] \ DOMAIN OpenLibraryBook(1) :
                    enriched.out[i][key] = fetched[i][key]
              /\ (fetched[i].isbn_13 = NULL \/ lookups[i] \in {Raises, Nothing})
                    => enriched.out[i] = fetched[i]

\* enrich_books has returned for two books: the lookup of the first raised,
\* the second was merged with what Open Library had.
C19_Witness ==
    /\ enriched.called
    /\ Len(fetched) = 2
    /\ fetched[1].isbn_13 # NULL
    /\ lookups[1] = Raises
    /\ lookups[2] \notin {Raises, Nothing}
    /\ enriched.out[1] = fetched[1]
    /\ enriched.out[2] # fetched[2]

(***************************************************************************)
(* insert.py: insert_data and its helpers, writing to the database that    *)
(* transfer.py reads.  A helper is an operator from the database before    *)
(* its statement to the database after it, with the id(s) it returns.      *)
(* Text that names a year is <<"year", y>>; the maturity rating 'MATURE'   *)
(* is <<"maturity", 1>>, any other <<"maturity", 0>>.                      *)
(***************************************************************************)
MinYear == 1400
CurrentYear == 2026

Max(S) == CHOOSE x \in S : \A y \in S : y <= x

\* The value a SERIAL key column gives the next row of table t.
NextId(db, t) == V(1 + Max({r[1][1] : r \in db[t]} \cup {0}))

\* book.get(key, default)
Get(book, key, default) == IF key \in DOMAIN book THEN book[key] ELSE default

\* format_year: the year as a number when it lies between 1400 and today.
format_year(year_str) ==
    IF year_str = NULL THEN NULL
    ELSE IF MinYear <= year_str[2] /\ year_str[2] <= CurrentYear THEN V(year_str[2])
    ELSE NULL

\* map_maturity_rating
map_maturity_rating(rating) ==
    IF rating = T("maturity", 1) THEN T("maturity", 1) ELSE T("maturity", 0)

\* The id of the row of a name table with the name, NULL when there is none.
NameId(db, t, name) ==
    LET hit == {r \in db[t] : r[2] = name}
    IN  IF hit = {} THEN NULL ELSE (CHOOSE r \in hit : TRUE)[1]

\* author['name'] if isinstance(author, dict) else author
AuthorName(author) == IF author[1] = "dict" THEN author[2] ELSE author

\* The loop of insert_author, insert_category and insert_subject over names:
\* an empty entry is passed over; INSERT ... ON CONFLICT (name) ... RETURNING
\* gives the id of a new row, and of a row that is there only with DO UPDATE
\* (returning = TRUE), not with DO NOTHING.
RECURSIVE InsertNames(_, _, _, _)
InsertNames(db, t, names, returning) ==
    IF Len(names) = 0 THEN [db |-> db, ids |-> <<>>]
    ELSE LET name == Head(names)
             old == IF name = NULL THEN NULL ELSE NameId(db, t, name)
             db1 == IF name = NULL \/ old # NULL THEN db
                    ELSE [db EXCEPT ![t] = @ \cup {<<NextId(db, t), name>>}]
             got == IF name = NULL THEN <<>>
                    ELSE IF old = NULL THEN <<NextId(db, t)>>
                    ELSE IF returning THEN <<old>> ELSE <<>>
             rest == InsertNames(db1, t, Tail(names), returning)
         IN  [db |-> rest.db, ids |-> got \o rest.ids]

\* insert_author; every dict among the authors has a name.
insert_author(db, authors) ==
    InsertNames(db, "Author",
                [i \in 1..Len(authors) |->
                    IF authors[i] = NULL THEN NULL ELSE AuthorName(authors[i])],
                FALSE)

insert_category(db, categories) == InsertNames(db, "Category", categories, TRUE)

insert_subject(db, subjects) == InsertNames(db, "Subject", subjects, TRUE)

\* insert_publisher: None for no name, the id of the new or present row else.
insert_publisher(db, publisher_name) ==
    IF publisher_name = NULL THEN [db |-> db, id |-> NULL]
    ELSE LET r == InsertNames(db, "Publisher", <<publisher_name>>, TRUE)
         IN  [db |-> r.db, id |-> r.ids[1]]

\* An insert_book without the test for the two ISBNs.
insert_book_unchecked(db, book_data) ==
    LET hit == {r \in db["Book"] : r[3] = book_data.isbn_13}
        old == CHOOSE r \in hit : TRUE
        new == <<NextId(db, "Book"), book_data.isbn_10, book_data.isbn_13,
                 book_data.title, book_data.subtitle, book_data.description,
                 book_data.language_code, format_year(book_data.published_year),
                 book_data.page_count,
                 map_maturity_rating(book_data.maturity_rating),
                 book_data.google_books_id, book_data.google_preview_link,
                 book_data.google_info_link, book_data.google_canonical_link>>
    IN  IF hit = {}
        THEN [db |-> [db EXCEPT !["Book"] = @ \cup {new}], id |-> new[1]]
        ELSE [db |-> [db EXCEPT !["Book"] =
                         (@ \ {old}) \cup {[old EXCEPT ![4] = new[4], ![5] = new[5],
                                                       ![6] = new[6]]}],
              id |-> old[1]]

\* insert_book: None for a book without isbn_10 or isbn_13; for one whose
\* isbn13 is stored, its title, subtitle and description are overwritten and
\* its book_id returned; a new row else.
insert_book(db, book_data) ==
    IF ~Truthy(book_data.isbn_10) \/ ~Truthy(book_data.isbn_13)
    THEN [db |-> db, id |-> NULL]
    ELSE LET hit == {r \in db["Book"] : r[3] = book_data.isbn_13}
             old == CHOOSE r \in hit : TRUE
             new == <<NextId(db, "Book"), book_data.isbn_10, book_data.isbn_13,
                      book_data.title, book_data.subtitle, book_data.description,
                      book_data.language_code, format_year(book_data.published_year),
                      book_data.page_count,
                      map_maturity_rating(book_data.maturity_rating),
                      book_data.google_books_id, book_data.google_preview_link,
                      book_data.google_info_link, book_data.google_canonical_link>>
         IN  IF hit = {}
             THEN [db |-> [db EXCEPT !["Book"] = @ \cup {new}], id |-> new[1]]
             ELSE [db |-> [db EXCEPT !["Book"] =
                              (@ \ {old}) \cup {[old EXCEPT ![4] = new[4], ![5] = new[5],
                                                            ![6] = new[6]]}],
                   id |-> old[1]]

\* INSERT ... ON CONFLICT (book_id) DO UPDATE on a table keyed by book_id.
UpsertByBook(db, t, row) ==
    [db EXCEPT ![t] = {r \in @ : r[1] # row[1]} \cup {row}]

Today == T("date", 0)
DefaultUrl == T("url", 0)
Hardcover == T("format", 1)
Paperback == T("format", 2)
USD == T("cur", 0)

\* handle_book_format: an EBook row for an e-book, with the default URL when
\* the book has none, a PhysicalBook row else; the row of the other table, if
\* there is one, stays.
handle_book_format(db, book_id, book_data) ==
    IF Truthy(book_data.isEbook)
    THEN LET ebook_url == Get(book_data, "ebook_url", NULL)
         IN  UpsertByBook(db, "EBook",
                          <<book_id, IF ebook_url = NULL THEN DefaultUrl ELSE ebook_url>>)
    ELSE LET format_value == Get(book_data, "physical_format", Hardcover)
         IN  UpsertByBook(db, "PhysicalBook",
                          <<book_id, IF format_value \in {Hardcover, Paperback}
                                     THEN format_value ELSE Hardcover>>)

\* A float stored in a NUMERIC column.
ToDec(v) == IF v = NULL THEN NULL ELSE T("dec", v[Len(v)])

\* insert_price: a row for (book_id, 'USD', today); on a second insert of the
\* same day the prices of the row are overwritten.  price_data is
\* <<listPrice, retailPrice, currency, saleability, buyLink, onSaleDate>>.
insert_price(db, book_id, price_data) ==
    LET hit == {r \in db["Price"] : r[2] = book_id /\ r[3] = USD /\ r[4] = Today}
        old == CHOOSE r \in hit : TRUE
        currency == price_data[3]
        new == <<NextId(db, "Price"), book_id, USD, Today, price_data[4],
                 ToDec(price_data[1]), ToDec(price_data[2]), currency, currency,
                 price_data[5]>>
    IN  IF hit = {} THEN [db EXCEPT !["Price"] = @ \cup {new}]
        ELSE [db EXCEPT !["Price"] =
                 (@ \ {old}) \cup {[old EXCEPT ![6] = new[6], ![7] = new[7]]}]

\* insert_rating
insert_rating(db, book_id, avg_rating, ratings_count) ==
    UpsertByBook(db, "Ratings", <<book_id, ToDec(avg_rating), ratings_count>>)

\* The INSERT ... ON CONFLICT DO NOTHING statements of insert_data for the
\* ids a helper returned.
InsertJoin(db, t, book_id, ids) ==
    [db EXCEPT ![t] = @ \cup {<<book_id, ids[i]>> : i \in 1..Len(ids)}]

\* One pass of insert_data's loop in which no statement raises: the database
\* at COMMIT, or the database as it was when insert_book returned no id and
\* the transaction was rolled back.
ProcessBook(db, book) ==
    LET b == insert_book(db, book)
        a == insert_author(b.db, Get(book, "authors", <<>>))
        p == insert_publisher(a.db, Get(book, "publisher", NULL))
        c == insert_category(p.db, Get(book, "categories", <<>>))
        s == insert_subject(c.db, Get(book, "subjects", <<>>))
        j1 == InsertJoin(s.db, "BookAuthor", b.id, a.ids)
        j2 == IF p.id = NULL THEN j1 ELSE InsertJoin(j1, "BookPublisher", b.id, <<p.id>>)
        j3 == InsertJoin(j2, "BookCategory", b.id, c.ids)
        j4 == InsertJoin(j3, "BookSubject", b.id, s.ids)
        f == handle_book_format(j4, b.id, book)
        pr == IF Get(book, "price_info", <<>>) # <<>>
              THEN insert_price(f, b.id, book.price_info) ELSE f
        r == IF Get(book, "average_rating", NULL) # NULL
             THEN insert_rating(pr, b.id, book.average_rating,
                                Get(book, "ratings_count", V(0)))
             ELSE pr
    IN  IF b.id = NULL THEN [db |-> db, result |-> "skipped"]
        ELSE [db |-> r, result |-> "committed"]

\* The books insert_data may be given: a book of Google Books as it is, with
\* an author of volume 1 before its own, without isbn_13, without isbn_10, as
\* an e-book, and merged with what Open Library has.
Insertable ==
    UNION {{GoogleBook(k),
            [GoogleBook(k) EXCEPT !.authors = <<T("name", 1), T("name", k)>>],
            [GoogleBook(k) EXCEPT !.isbn_13 = NULL],
            [GoogleBook(k) EXCEPT !.isbn_10 = NULL],
            [GoogleBook(k) EXCEPT !.isEbook = T("bool", 1)],
            Merge(GoogleBook(k), OpenLibraryBook(k))} : k \in Ids}

\* insert_data(connection, books) is called on an empty database.
InsertInit ==
    /\ MigrationIdle
    /\ MainIdle
    /\ ApiIdle
    /\ pg = EmptyDb
    /\ todo \in SeqsUpTo(Insertable, MaxBooks)
    /\ processed = <<>>

\* One pass of the loop: BEGIN, the statements, COMMIT.
InsertOne ==
    /\ Len(todo) > 0
    /\ LET done == ProcessBook(pg, Head(todo))
       IN  /\ pg' = done.db
           /\ processed' = Append(processed, [book |-> Head(todo), result |-> done.result])
    /\ todo' = Tail(todo)
    /\ UNCHANGED <<graphVars, mainVars, apiVars>>

\* One pass of the loop in which a statement raises a database error: the
\* transaction is aborted and nothing of the book is stored.
InsertFails ==
    /\ Len(todo) > 0
    /\ processed' = Append(processed, [book |-> Head(todo), result |-> "failed"])
    /\ todo' = Tail(todo)
    /\ UNCHANGED <<pg, graphVars, mainVars, apiVars>>

InsertNext ==
    \/ InsertOne
    \/ InsertFails

InsertSpec == InsertInit /\ [][InsertNext]_vars

(* ---------------- C18 ---------------- *)
\* The names of the authors of a book, empty entries left out.
AuthorNames(book) ==
    {AuthorName(book.authors[i]) : i \in {j \in 1..Len(book.authors) : book.authors[j] # NULL}}

\* C18: once insert_data has committed a book, each of the book's author
\* names has an Author row, and a BookAuthor row joins the book's row to it,
\* for an author the book brought in and for one an earlier book had brought.
C18_AuthorsLinked ==
    \A i \in 1..Len(processed) :
        processed[i].result = "committed" =>
            \A b \in {r \in pg["Book"] : r[3] = processed[i].book.isbn_13} :
                \A name \in AuthorNames(processed[i].book) :
                    /\ NameId(pg, "Author", name) # NULL
                    /\ <<b[1], NameId(pg, "Author", name)>> \in pg["BookAuthor"]

(* ---------------- sources without the key constraints ---------------- *)
\* A second row for book 1 in a satellite table, as a table without the
\* unique constraint on book_id can hold it.
SecondRows ==
    {<<"Ratings", [RatingsRow(2) EXCEPT ![1] = V(1)]>>,
     <<"PhysicalBook", [PhysicalBookRow(2) EXCEPT ![1] = V(1)]>>,
     <<"EBook", [EBookRow(2) EXCEPT ![1] = V(1)]>>}

\* The base catalogue, with up to MaxDelta such rows added.
DupDatabases ==
    {[t \in Tables |-> TableOf(BaseFacts \cup D, t)] : D \in SubsetsUpTo(SecondRows, MaxDelta)}

DupInit ==
    /\ MainIdle
    /\ InsertIdle
    /\ ApiIdle
    /\ pg \in DupDatabases
    /\ \/ nodes = EmptyBag /\ edges = EmptyBag
       \/ nodes = StaleNodes /\ edges = StaleEdges
    /\ indexes = {}
    /\ pc = "START"
    /\ trace = <<>>
    /\ failedAt = "none"
    /\ log = <<>>
    /\ completed = FALSE
    /\ handles = Fresh
    /\ runs = 1
    /\ doneGraphs = <<>>

DupSpec == DupInit /\ [][Next]_vars

(* ---------------- C21 ---------------- *)
\* The batch of records the load stage of a label hands to the loader.
BatchOf(db, label) ==
    IF label = "Book" THEN SelectBooks(db) ELSE SelectAll(db, label)

\* How many records of the batch have the id.
TimesInBatch(db, label, id) ==
    BagCardinality(BagOn(BatchOf(db, label),
                         {row \in BagToSet(BatchOf(db, label)) : row[1] = id}))

\* C21: a run executes each node stage at most once and only after RESET; once
\* the stage of a label has run, the graph has as many nodes of the label as
\* the batch had records, and as many nodes with an id as the batch had
\* records with it, so an id has more than one node exactly when it occurs
\* more than once in the batch.
C21_OneNodePerRecord ==
    /\ \A i, j \in 1..Len(trace) :
          (trace[i] \in NodeStages /\ trace[i] = trace[j]) => i = j
    /\ \A i \in 1..Len(trace) : trace[i] \in NodeStages => "RESET" \in Before(i)
    /\ \A label \in Labels :
          (Ran("RESET") /\ Ran(LoadStage(label))) =>
              /\ CountLabel(nodes, label) = BagCardinality(BatchOf(pg, label))
              /\ \A k \in Ids :
                    /\ CountId(nodes, label, V(k)) = TimesInBatch(pg, label, V(k))
                    /\ CountId(nodes, label, V(k)) > 1 <=> TimesInBatch(pg, label, V(k)) > 1

\* A completed run whose Book batch held book 1 twice and book 2 once: two
\* Book nodes have id 1, one has id 2.
C21_Witness ==
    /\ pc = "DONE"
    /\ TimesInBatch(pg, "Book", V(1)) = 2
    /\ CountId(nodes, "Book", V(1)) = 2
    /\ CountId(nodes, "Book", V(2)) = 1

(* ---------------- C22 ---------------- *)
\* not book_data.get("isbn_10") or not book_data.get("isbn_13")
MissingIsbn(book) == ~Truthy(Get(book, "isbn_10", NULL)) \/ ~Truthy(Get(book, "isbn_13", NULL))

\* C22: every stored Book row has both ISBNs; the pass of insert_data's loop
\* over a book that misses one is recorded as skipped or failed, never as
\* committed, leaves every table as it was and moves on to the next book of
\* the batch.
C22_MissingIsbnSkipped ==
    /\ [](\A r \in pg["Book"] : r[2] # NULL /\ r[3] # NULL)
    /\ [](\A i \in 1..Len(processed) :
            MissingIsbn(processed[i].book) => processed[i].result # "committed")
    /\ [][(Len(todo) > 0 /\ MissingIsbn(Head(todo)) /\ todo' # todo) =>
            (pg' = pg /\ todo' = Tail(todo) /\ Len(processed') = Len(processed) + 1)]_vars

\* The first book of the batch had no isbn_13 and was skipped, the second was
\* committed.
C22_Witness ==
    /\ Len(processed) = 2
    /\ processed[1].book.isbn_13 = NULL
    /\ processed[1].result = "skipped"
    /\ processed[2].result = "committed"
    /\ Cardinality(pg["Book"]) = 1


(* ---------------- fetch.py: GoogleBooksAPI._api_request ---------------- *)

\* bounds: the number of keys a GoogleBooksAPI is built with and the number
\* of requests made through one object
MaxKeys == 3
MaxCalls == 2

\* retries of _api_request, and the two status codes it tests for
Retries == 5
StatusOk == 200
StatusRateLimited == 429
\* a status that is neither of the two
StatusOther == 500

\* What one requests.get can do: answer with a status, or raise a
\* RequestException.
Responses == {T("status", StatusOk), T("status", StatusRateLimited),
              T("status", StatusOther), T("raise", 0)}

\* rotate_api_key, as the new index
rotate_api_key(index, keys) == (index + 1) % Len(keys)

\* get_current_api_key
get_current_api_key(index, keys) == keys[index + 1]

\* A GoogleBooksAPI after __init__, before any request.
ApiInit ==
    /\ pg = EmptyDb
    /\ MigrationIdle
    /\ MainIdle
    /\ InsertIdle
    /\ \E n \in 1..MaxKeys : api_keys = [i \in 1..n |-> i]
    /\ current_key_index = 0
    /\ apc = "idle"
    /\ attempt = 0
    /\ start = 0
    /\ statuses = <<>>
    /\ sent = <<>>
    /\ response = <<>>
    /\ calls = 0

\* _api_request is called: retries is set and the loop is entered.
ApiRequest ==
    /\ apc \in {"idle", "returned"}
    /\ calls < MaxCalls
    /\ calls' = calls + 1
    /\ apc' = "loop"
    /\ attempt' = 0
    /\ start' = current_key_index
    /\ statuses' = <<>>
    /\ sent' = <<>>
    /\ response' = <<>>
    /\ UNCHANGED <<api_keys, current_key_index>>
    /\ UNCHANGED <<pg, graphVars, mainVars, insertVars>>

\* An attempt that returns its response whatever the status is.
AttemptReturnsAny ==
    /\ apc = "loop"
    /\ attempt < Retries
    /\ \E r \in Responses :
        /\ sent' = Append(sent, get_current_api_key(current_key_index, api_keys))
        /\ statuses' = Append(statuses, r)
        /\ attempt' = attempt + 1
        /\ IF r[1] = "status"
             THEN /\ response' = r
                  /\ apc' = "returned"
                  /\ UNCHANGED current_key_index
             ELSE UNCHANGED <<response, apc, current_key_index>>
    /\ UNCHANGED <<api_keys, start, calls>>
    /\ UNCHANGED <<pg, graphVars, mainVars, insertVars>>

\* An attempt that rotates the key on every answer that is not a 200.
AttemptRotatesAlways ==
    /\ apc = "loop"
    /\ attempt < Retries
    /\ \E r \in Responses :
        /\ sent' = Append(sent, get_current_api_key(current_key_index, api_keys))
        /\ statuses' = Append(statuses, r)
        /\ attempt' = attempt + 1
        /\ IF r = T("status", StatusOk)
             THEN /\ response' = r
                  /\ apc' = "returned"
                  /\ UNCHANGED current_key_index
             ELSE /\ current_key_index' = rotate_api_key(current_key_index, api_keys)
                  /\ UNCHANGED <<response, apc>>
    /\ UNCHANGED <<api_keys, start, calls>>
    /\ UNCHANGED <<pg, graphVars, mainVars, insertVars>>

\* One pass of the for loop: the key is read, the request is made, and the
\* answer is a 200 (returned), a 429 (the key is rotated), another status
\* (nothing) or a RequestException (printed).
Attempt ==
    /\ apc = "loop"
    /\ attempt < Retries
    /\ \E r \in Responses :
        /\ sent' = Append(sent, get_current_api_key(current_key_index, api_keys))
        /\ statuses' = Append(statuses, r)
        /\ attempt' = attempt + 1
        /\ IF r = T("status", StatusOk)
             THEN /\ response' = r
                  /\ apc' = "returned"
                  /\ UNCHANGED current_key_index
             ELSE IF r = T("status", StatusRateLimited)
             THEN /\ current_key_index' = rotate_api_key(current_key_index, api_keys)
                  /\ UNCHANGED <<response, apc>>
             ELSE UNCHANGED <<response, apc, current_key_index>>
    /\ UNCHANGED <<api_keys, start, calls>>
    /\ UNCHANGED <<pg, graphVars, mainVars, insertVars>>

\* The loop has run out of retries: None is returned.
Exhausted ==
    /\ apc = "loop"
    /\ attempt = Retries
    /\ response' = NULL
    /\ apc' = "returned"
    /\ UNCHANGED <<api_keys, current_key_index, attempt, start, statuses, sent, calls>>
    /\ UNCHANGED <<pg, graphVars, mainVars, insertVars>>

ApiStep == Attempt \/ Exhausted

ApiNext == ApiRequest \/ Attempt \/ Exhausted

ApiSpec == ApiInit /\ [][ApiNext]_vars

\* The interpreter keeps running a call that has begun, and every
\* requests.get comes back.
ApiLiveSpec == ApiSpec /\ WF_vars(ApiStep)

\* the number of 429 answers among the first n attempts of the call
RECURSIVE RateLimitedIn(_, _)
RateLimitedIn(ss, n) ==
    IF n = 0 THEN 0
    ELSE RateLimitedIn(ss, n - 1) + (IF ss[n] = T("status", StatusRateLimited) THEN 1 ELSE 0)

\* C23: _api_request ends after at most 5 attempts; what it returns is a
\* response with status 200 or None, and it is None exactly when all 5
\* attempts were made and none of them was answered with status 200,
\* whatever 429s, other statuses and exceptions there were.
C23_AtMostFiveAttempts ==
    /\ [](attempt <= Retries /\ Len(statuses) = attempt)
    /\ [](apc = "returned" =>
            /\ response \in {NULL, T("status", StatusOk)}
            /\ response = NULL <=>
                 /\ attempt = Retries
                 /\ \A i \in 1..Len(statuses) : statuses[i] # T("status", StatusOk)
            /\ response # NULL => statuses[Len(statuses)] = response)
    /\ (apc = "loop") ~> (apc = "returned")

C23_Witness ==
    /\ apc = "returned"
    /\ response = NULL
    /\ attempt = Retries
    /\ \E i, j, k \in 1..Retries :
        /\ statuses[i] = T("status", StatusRateLimited)
        /\ statuses[j] = T("status", StatusOther)
        /\ statuses[k] = T("raise", 0)

\* C24: the index stays in 0..len(api_keys)-1; it moves, by one modulo the
\* number of keys, in exactly the steps that are answered with a 429; each
\* attempt is sent with the key at the index of that moment, which is
\* api_keys[(start + k) mod len(api_keys)] after k answers of 429.
C24_RoundRobin ==
    /\ [](current_key_index \in 0..(Len(api_keys) - 1))
    /\ [][current_key_index' # current_key_index \/ 
          (Len(statuses') = Len(statuses) + 1
             /\ statuses'[Len(statuses')] = T("status", StatusRateLimited)) =>
            /\ Len(statuses') = Len(statuses) + 1
            /\ statuses'[Len(statuses')] = T("status", StatusRateLimited)
            /\ current_key_index' = (current_key_index + 1) % Len(api_keys)]_vars
    /\ [](\A i \in 1..Len(sent) :
            sent[i] = api_keys[((start + RateLimitedIn(statuses, i - 1)) % Len(api_keys)) + 1])
    /\ [](apc # "idle" =>
            current_key_index = (start + RateLimitedIn(statuses, Len(statuses))) % Len(api_keys))

C24_Witness ==
    /\ Len(api_keys) = 3
    /\ start = 2
    /\ Len(sent) = 3
    /\ sent = <<3, 1, 2>>
    /\ current_key_index = 1

(* ---------------- C25 ---------------- *)
\* C25: a stage's write is one transaction.  A step that raises leaves the
\* nodes and the edges as they were; the Price nodes and the PRICED_AT edges
\* change only in LOAD_PRICES (and in the reset), both in the same step; so
\* whenever the graph of a run holds Price nodes, LOAD_PRICES is over, there
\* is one node per Price row, and every Price row whose Book node exists has
\* its PRICED_AT edge.
C25_StageAtomic ==
    /\ [][pc' = "ABORTED" => (nodes' = nodes /\ edges' = edges)]_vars
    /\ [][(CountLabel(nodes', "Price") # CountLabel(nodes, "Price")
            \/ CountType(edges', "PRICED_AT") # CountType(edges, "PRICED_AT")) =>
              \/ pc' = "RESET"
              \/ /\ pc' = "LOAD_PRICES"
                 /\ CountLabel(nodes', "Price") =
                       CountLabel(nodes, "Price") + Cardinality(pg["Price"])
                 /\ \A row \in pg["Price"] :
                       Matched(nodes', "PRICED_AT", row) =>
                           CountPair(edges', "PRICED_AT", row[2], row[1]) > 0]_vars
    /\ []((Ran("RESET") /\ CountLabel(nodes, "Price") > 0) =>
              /\ Ran("LOAD_PRICES")
              /\ CountLabel(nodes, "Price") = Cardinality(pg["Price"])
              /\ \A row \in pg["Price"] :
                    CountId(nodes, "Book", row[2]) > 0 =>
                        CountPair(edges, "PRICED_AT", row[2], row[1]) > 0)

\* An earlier run committed Price nodes with their edges; this run loaded the
\* books of a priced table and failed in LOAD_PRICES, and holds no Price node.
C25_Witness ==
    /\ Len(doneGraphs) > 0
    /\ CountLabel(doneGraphs[1].nodes, "Price") > 0
    /\ CountType(doneGraphs[1].edges, "PRICED_AT") > 0
    /\ pc = "ABORTED"
    /\ failedAt = "LOAD_PRICES"
    /\ \E row \in pg["Price"] : CountId(nodes, "Book", row[2]) > 0
    /\ CountLabel(nodes, "Price") = 0

(* ---------------- C26 ---------------- *)
\* The names of a list of categories or subjects, empty entries left out.
NamesIn(names) == {names[i] : i \in {j \in 1..Len(names) : names[j] # NULL}}

\* Book row b is joined in table t to the row of every name.
Joined(db, b, t, join, names) ==
    \A name \in names :
        /\ NameId(db, t, name) # NULL
        /\ <<b[1], NameId(db, t, name)>> \in db[join]

\* The database holds all rows of the book: the Book row, the links to its
\* authors, publisher, categories and subjects, a format row, and the price
\* and rating rows when the book supplies them.
AllRows(db, book) ==
    \E b \in db["Book"] :
        /\ b[3] = book.isbn_13
        /\ Joined(db, b, "Author", "BookAuthor", AuthorNames(book))
        /\ Joined(db, b, "Publisher", "BookPublisher",
                  NamesIn(<<Get(book, "publisher", NULL)>>))
        /\ Joined(db, b, "Category", "BookCategory", NamesIn(Get(book, "categories", <<>>)))
        /\ Joined(db, b, "Subject", "BookSubject", NamesIn(Get(book, "subjects", <<>>)))
        /\ \E r \in db["PhysicalBook"] \cup db["EBook"] : r[1] = b[1]
        /\ Get(book, "price_info", <<>>) # <<>> => \E r \in db["Price"] : r[2] = b[1]
        /\ Get(book, "average_rating", NULL) # NULL => \E r \in db["Ratings"] : r[1] = b[1]

\* C26: a pass of insert_data's loop over a book either leaves the database
\* as it was or leaves it holding all rows of the book, whether or not a
\* statement of the pass failed.
C26_AtomicPerBook ==
    [][todo' # todo => (pg' = pg \/ AllRows(pg', Head(todo)))]_vars

(* ---------------- C27 ---------------- *)
\* the keys of a book whose values are lists
ListKeys == {"authors", "categories", "subjects"}

\* C27: every key that has a value in the record of Google Books has a value
\* in the record enrich_books returns for the book, and a book that had both
\* ISBNs before has both after.
C27_EnrichKeepsValues ==
    enriched.called =>
        \A i \in 1..Len(fetched) :
            /\ \A key \in DOMAIN fetched[i] \ ListKeys :
                  fetched[i][key] # NULL => enriched.out[i][key] # NULL
            /\ ~MissingIsbn(fetched[i]) => ~MissingIsbn(enriched.out[i])

(* ---------------- C28 ---------------- *)
\* C28: whatever books insert_data has processed, a stored book has a
\* PhysicalBook row or an EBook row and not both, and no record the migration
\* reads for a Book node has both format and ebook_url.
C28_OneFormat ==
    /\ \A b \in pg["Book"] :
          /\ \E r \in pg["PhysicalBook"] \cup pg["EBook"] : r[1] = b[1]
          /\ ~(/\ \E r \in pg["PhysicalBook"] : r[1] = b[1]
               /\ \E r \in pg["EBook"] : r[1] = b[1])
    /\ \A rec \in BagToSet(BagOfAll(BookRecord, SelectBooks(pg))) :
          rec.format = NULL \/ rec.ebook_url = NULL

====
